---- MODULE Spec2Model ----
(***************************************************************************)
(* Streaming session orchestrator of glass-cinema: the modules             *)
(* streaming/index (startStream, rebindServerForCast, serveLocalFolder,    *)
(* forceCleanup, fullCleanup), MediaServer, CastServer, LocalFolder,       *)
(* TorrentManager and the cast-device-selected IPC handlers.               *)
(*                                                                         *)
(* The program runs on one event loop.  One action of the model is one     *)
(* task of that loop: the synchronous code from one resumption to the next *)
(* suspension.  A continuation that is already runnable (a promise that    *)
(* has been resolved) runs before any timer, I/O callback or IPC message;  *)
(* the model keeps that order with MicrotaskPending, which disables every  *)
(* task while a continuation is runnable.                                  *)
(*                                                                         *)
(* server.listen(port, host) with a literal IP address binds inside the    *)
(* call and delivers 'listening' or 'error' from the nextTick queue, i.e.  *)
(* before the current task ends; a bind and its callback are therefore     *)
(* part of the action that calls listen.  setTimeout callbacks (the 100 ms *)
(* port retry, the 100 ms cast-server creation, the 500 ms cache delay,    *)
(* the teardown timeouts) are tasks of their own.                          *)
(***************************************************************************)
EXTENDS Integers, Sequences, FiniteSets, TLC

\* ------------------------------------------------------------------ bounds
MaxOps == 3          \* operations (IPC requests) issued in one run
MaxActive == 2       \* operations in flight at the same time
MaxDownloads == 2    \* startDownload calls issued in one run

\* ------------------------------------------------------- program constants
CAST_PORT == 8888
PREFERRED_PORT == 62182
MaxRetryPort == 5
EphemeralBase == 49152

Loopback == "127.0.0.1"
Wildcard == "0.0.0.0"
LanIp == "192.168.1.5"
\* what os.networkInterfaces() can make getLocalIP return: a private address,
\* or the '127.0.0.1' fallback when no private interface is up
getLocalIP == {LanIp, Loopback}

\* ---------------------------------------------------------------- magnets
\* MLocal: a finalized download exists at downloads/<hash>/video.mp4
\* MSwarm: a swarm with three files;  MEmpty: a swarm that delivers no file
Magnets == {"MLocal", "MSwarm", "MEmpty"}
\* the magnets whose finalized file downloads/<hash>/video.mp4 is on disk
DownloadedMagnets == {"MLocal"}
\* magnets of swarms with other file lists: equal lengths, a single file
SelectMagnets == Magnets \cup {"MTieFirst", "MTieLast", "MAllEqual", "MSingle", "MDescending"}
FileList(lengths) ==
    [k \in 1 .. Len(lengths) |->
        [name |-> IF k = 2 THEN "b 1.mp4" ELSE IF k = 1 THEN "a.nfo" ELSE "c.srt",
         length |-> lengths[k]]]
\* torrent.files of the swarm of magnet m
Files(m) ==
    CASE m = "MSwarm" -> FileList(<<10, 50, 30>>)
      [] m = "MTieFirst" -> FileList(<<50, 50, 30>>)
      [] m = "MTieLast" -> FileList(<<10, 50, 50>>)
      [] m = "MAllEqual" -> FileList(<<30, 30, 30>>)
      [] m = "MSingle" -> FileList(<<10>>)
      [] m = "MDescending" -> FileList(<<50, 30, 10>>)
      [] m \in {"magnet:?xt=urn:btih:H1", "magnet:?xt=urn:btih:h2"} -> FileList(<<10, 50, 30>>)
      [] OTHER -> << >>

\* torrent.files.reduce((a, b) => a.length > b.length ? a : b), as an index
RECURSIVE ReduceMax(_, _, _)
ReduceMax(files, acc, k) ==
    IF k > Len(files) THEN acc
    ELSE ReduceMax(files, IF files[acc].length > files[k].length THEN acc ELSE k, k + 1)
\* indexOf(file): 0-based
MainFileIndex(files) == ReduceMax(files, 1, 2) - 1

\* encodeURIComponent on the file names of the model
encodeURIComponent(n) ==
    CASE n = "b 1.mp4" -> "b%201.mp4"
      [] OTHER -> n

\* ------------------------------------------------------------------- URLs
\* a URL `http://${host}:${port}/${a}/${b}` or `http://${host}:${port}/video.mp4`
NullUrl == [host |-> "null", port |-> 0, path |-> << >>]
NotCalled == [host |-> "notcalled", port |-> 0, path |-> << >>]
TorrentUrl(h, p, idx, name) == [host |-> h, port |-> p, path |-> <<idx, encodeURIComponent(name)>>]
VideoUrl(h, p) == [host |-> h, port |-> p, path |-> <<"video.mp4">>]
\* streamUrl.includes('127.0.0.1'): the host is the only part of a URL of the
\* model that can hold that text (no file name of Files contains it)
Includes127(u) == u.host = Loopback

VARIABLES
    \* MediaServer
    activeServer, activePort, isCastMode, activeLocalFilePath,
    \* TorrentManager
    client, activeTorrent, activeFileIndex, activeFileName,
    \* streaming/index
    isClean, cleanupPromise, progressInterval, streamReadyPromise,
    \* the process: server objects that were bound, ports held by others,
    \* the operations issued so far
    servers, foreign, ops,
    \* history: number of session changes (acquisitions and teardowns)
    epoch

VARIABLES
    \* DownloadManager
    downloadClient, activeDownloads,
    \* the startDownload calls issued so far, the downloads/ directories that
    \* exist, the persistent downloads index (store-manager)
    dls, dirs, rmTimers, stored,
    \* the HTTP responses given by the listeners of local files
    responses

VARIABLES
    \* cast-manager: the device playOnDevice selected
    activeDevice

VARIABLES
    \* the platform: whether the file system tells 'H1' from 'h1'
    caseSensitiveFs

VARIABLES
    \* the 'download-progress' reply sent by the step just taken, if any, and
    \* the pieces each streaming torrent has verified
    report, downloaded

mediaVars == <<activeServer, activePort, isCastMode, activeLocalFilePath>>
torrentVars == <<client, activeTorrent, activeFileIndex, activeFileName>>
indexVars == <<isClean, cleanupPromise, progressInterval, streamReadyPromise>>
dlVars == <<downloadClient, activeDownloads, dls, dirs, rmTimers, stored>>
streamVars == <<mediaVars, torrentVars, indexVars, servers, foreign, ops, epoch>>
httpVars == <<responses>>
progressVars == <<report, downloaded>>
deviceVars == <<activeDevice>>
platformVars == <<caseSensitiveFs>>
vars == <<streamVars, dlVars, httpVars, progressVars, deviceVars, platformVars>>

\* cast-manager: activeDevice is null, or the device of the last playOnDevice
NoDevice == "null"
Device == "device"
\* the pieces of a streamed torrent
NumPieces == 2
\* replies with progress = 1 in a row that are told apart
MaxFull == 2
\* no reply: the step just taken did not call onProgress
NoStats == [sink |-> 0, tor |-> 0, progress |-> 0, full |-> 0]
NoProgressReply == report' = NoStats /\ UNCHANGED downloaded

\* the identifiers (movie.infoHash) of the movies downloaded, as the caller
\* spells them: one in upper-case hex, one in lower-case hex
Hashes == {"H1", "h2"}

\* `magnet:?xt=urn:btih:${infoHash}`
MagnetOf(infoHash) ==
    CASE infoHash = "H1" -> "magnet:?xt=urn:btih:H1"
      [] infoHash = "h2" -> "magnet:?xt=urn:btih:h2"
HashMagnets == {MagnetOf(h) : h \in Hashes}
\* magnet.match(/xt=urn:btih:([a-zA-Z0-9]+)/)[1]
match(magnet) ==
    CASE magnet = "magnet:?xt=urn:btih:H1" -> "H1"
      [] magnet = "magnet:?xt=urn:btih:h2" -> "h2"
toLowerCase(text) ==
    CASE text = "H1" -> "h1"
      [] OTHER -> text
\* fs.existsSync(path.join(DOWNLOADS_DIR, name, 'video.mp4')): the directories
\* on disk carry the names startDownload gave them
existsSync(name) ==
    \E h \in Hashes :
        /\ dirs[h] = "video"
        /\ IF caseSensitiveFs THEN h = name ELSE toLowerCase(h) = toLowerCase(name)

\* addTorrent with the existsSync test gone
LocalFileExistsNever(m) == FALSE
\* addTorrent, lines 18-27: the hash is extracted and fs.existsSync(localPath)
LocalFileExists(m) ==
    IF m \in HashMagnets THEN existsSync(toLowerCase(match(m))) ELSE m \in DownloadedMagnets
LocalPath(m) == "downloads/h/video.mp4"

\* the sets of fixed ports another process may hold
ForeignChoices == { {}, {CAST_PORT, PREFERRED_PORT} }

\* an operation record; every kind uses the fields it needs
NewOp(kind) ==
    [kind |-> kind, pc |-> "new",
     magnet |-> "none", retry |-> 0,          \* startStream
     cl |-> "none", tor |-> "none",           \* the WebTorrent client / torrent it created
     gate |-> "none",                          \* its streamReadyPromise
     srvWait |-> FALSE, cliWait |-> FALSE,     \* forceCleanup: promises still pending
     ip |-> "none", variant |-> "none",        \* cast flow
     hasT |-> FALSE, g |-> 0, join |-> 0,
     res |-> NullUrl, ready |-> 0,             \* result / number of ready callbacks
     played |-> NotCalled, nErr |-> 0, nConn |-> 0,
     nFc |-> 0, nCc |-> 0,                     \* forceCleanup / cleanCache runs
     \* history
     during |-> 0, quiet |-> FALSE, ssDuring |-> FALSE, acqDuring |-> FALSE,
     prev |-> 0, ep |-> 0,
     inDelay |-> 0,                            \* startStream: the fullCleanup whose 500 ms delay ran at its acquisition
     td |-> 0,                                 \* a pending timer: the forceCleanup begun since (-1: resolved)
     srv0 |-> 0,                               \* cast flow begun in quiet: the listener serving then
     tried |-> << >>]                          \* serveTorrent: ports passed to listen, in order

OpIds == 1 .. Len(ops)
SrvIds == 1 .. Len(servers)

InitOn(ports, platforms) ==
    /\ caseSensitiveFs \in platforms
    /\ activeServer = 0 /\ activePort = 0 /\ isCastMode = FALSE /\ activeLocalFilePath = "null"
    /\ client = 0 /\ activeTorrent = 0 /\ activeFileIndex = -1 /\ activeFileName = "null"
    /\ isClean = TRUE /\ cleanupPromise = 0 /\ progressInterval = 0 /\ streamReadyPromise = 0
    /\ servers = << >>
    /\ foreign \in ports
    /\ ops = << >>
    /\ epoch = 0
    /\ downloadClient = 0
    /\ activeDownloads = [h \in Hashes |-> 0]
    /\ dls = << >>
    /\ dirs = [h \in Hashes |-> "none"]
    /\ rmTimers = [h \in Hashes |-> 0]
    /\ stored = {}
    /\ responses = {}
    /\ report = NoStats
    /\ activeDevice = NoDevice
    /\ downloaded = [t \in 1 .. MaxOps |-> 0]

\* the sessions below play no title by its hash: caseSensitiveFs is not read
InitWith(ports) == InitOn(ports, {TRUE})
Init == InitWith(ForeignChoices)

\* ---------------------------------------------------------------- helpers
Listening(s) == servers[s].st = "listening"
PortInUse(srvs, p) ==
    \/ p \in foreign
    \/ \E s \in 1 .. Len(srvs) : srvs[s].st = "listening" /\ srvs[s].port = p
\* listen(0, ...): the lowest free port of the ephemeral range
EphemeralPort(srvs) ==
    CHOOSE p \in EphemeralBase .. (EphemeralBase + MaxOps) :
        /\ ~PortInUse(srvs, p)
        /\ \A q \in EphemeralBase .. (p - 1) : PortInUse(srvs, q)
\* server.close(): the listening socket is released in the call
\* (a closed server object keeps no field the program can read)
ClosedServer == [st |-> "closed", host |-> "", port |-> 0, kind |-> "", owner |-> 0, tor |-> 0,
                 sec |-> FALSE, ep |-> 0, prev |-> 0]
Close(srvs, s) == IF s = 0 THEN srvs ELSE [srvs EXCEPT ![s] = ClosedServer]
\* webtorrent destroys the servers made by torrent.createServer() with the torrent
CloseTorrentServers(srvs, t) ==
    [s \in 1 .. Len(srvs) |-> IF srvs[s].tor = t THEN ClosedServer ELSE srvs[s]]
NewServer(host, port, kind, owner, tor, sec) ==
    [st |-> "listening", host |-> host, port |-> port, kind |-> kind,
     owner |-> owner, tor |-> tor, sec |-> sec, ep |-> epoch, prev |-> 0]

Finished(o, j) == o[j].pc \in {"done", "retired"}
\* a startStream call that can still act (one whose client was destroyed
\* before the callback of client.add never resumes)
StartActive(o, j) ==
    /\ o[j].kind = "start" /\ ~Finished(o, j)
    /\ ~(o[j].pc = "adding" /\ o[j].cl = "destroyed")
OtherStartActive(o, i) == \E j \in 1 .. Len(o) : j # i /\ StartActive(o, j)
FullActive(o, j) == o[j].kind = "full" /\ ~Finished(o, j)
AllDone(o) == \A j \in 1 .. Len(o) : Finished(o, j)

\* operations that can still take a step
InFlight ==
    {j \in OpIds : /\ ops[j].pc \notin {"done", "retired", "hung", "unbound"}
                   /\ ~(ops[j].pc = "adding" /\ ops[j].cl = "destroyed")}
MayLaunch == Len(ops) < MaxOps /\ Cardinality(InFlight) < MaxActive

\* a resolved promise has a continuation waiting to run
MicrotaskPending ==
    \E i \in OpIds :
        \/ ops[i].pc \in {"fcResume", "fcDone", "acquire", "rebind", "result", "done"}
        \/ ops[i].pc = "gate" /\ ops[ops[i].g].gate \in {"true", "false"}
        \/ ops[i].pc = "joined" /\ Finished(ops, ops[i].join)

hasActiveServer == activeServer # 0
\* startStream, line 37, with the check dropped
NeedsCleanupNever == FALSE
\* startStream, line 37: mediaServer.hasActiveServer() || torrentManager.getClient()
NeedsCleanup == hasActiveServer \/ client # 0
hasActiveTorrent == activeTorrent # 0 /\ ops[activeTorrent].tor # "destroyed"

\* MediaServer.getStreamUrl(fileIndex, fileName) as streaming/index calls it;
\* lip is what getLocalIP() returns at that moment.  address() of a server
\* that is not listening is null.
getStreamUrl(lip) ==
    IF activeServer = 0 THEN NullUrl
    ELSE IF ~Listening(activeServer) THEN NullUrl
    ELSE LET host == IF isCastMode THEN lip ELSE Loopback
             port == servers[activeServer].port
         IN  IF activeLocalFilePath # "null" THEN VideoUrl(host, port)
             ELSE TorrentUrl(host, port, activeFileIndex, activeFileName)

\* --------------------------------------------------------- forceCleanup
\* the timers pending in a session (the port retry of serveTorrent, the 100 ms
\* of rebindForCast) when forceCleanup call i begins, and when it resolves
TimerPending(o, k) == o[k].pc \in {"retry", "castTimer"}
TeardownBegun(o, i) ==
    [k \in 1 .. Len(o) |-> IF TimerPending(o, k) /\ o[k].td = 0 THEN [o[k] EXCEPT !.td = i] ELSE o[k]]
TeardownResolved(o, i) ==
    [k \in 1 .. Len(o) |-> IF TimerPending(o, k) /\ o[k].td = i THEN [o[k] EXCEPT !.td = -1] ELSE o[k]]
\* forceCleanup up to its await: clearInterval, mediaServer.destroy(),
\* torrentManager.destroy().  o is ops with the calling operation in it.
forceCleanupStart(i, o) ==
    LET s == activeServer
        c == client
        srv1 == Close(servers, s)
        srv2 == IF c = 0 THEN srv1 ELSE CloseTorrentServers(srv1, c)
        o1 == IF c = 0 THEN o ELSE [o EXCEPT ![c].cl = "destroyed", ![c].tor = "destroyed"]
    IN  /\ progressInterval' = 0
        /\ activeServer' = 0
        /\ client' = 0
        /\ activeTorrent' = 0
        /\ servers' = srv2
        /\ epoch' = epoch + 1
        /\ ops' = [TeardownBegun(o1, i)
                       EXCEPT ![i].srvWait = (s # 0),
                              ![i].cliWait = (c # 0),
                              ![i].pc = IF s # 0 \/ c # 0 THEN "cleanup" ELSE "fcResume",
                              ![i].nFc = @ + 1,
                              ![i].ssDuring = OtherStartActive(o1, i)]

\* one of the two teardown promises of a pending forceCleanup resolves
FcSettle(i, server) ==
    /\ ops[i].pc = "cleanup"
    /\ ~MicrotaskPending
    /\ IF server THEN ops[i].srvWait ELSE ops[i].cliWait
    /\ LET o == IF server THEN [ops EXCEPT ![i].srvWait = FALSE] ELSE [ops EXCEPT ![i].cliWait = FALSE]
       IN ops' = [o EXCEPT ![i].pc = IF o[i].srvWait \/ o[i].cliWait THEN "cleanup" ELSE "fcResume"]
    /\ UNCHANGED <<mediaVars, torrentVars, indexVars, servers, foreign, epoch>>
    /\ UNCHANGED <<dlVars, httpVars>> /\ NoProgressReply /\ UNCHANGED <<deviceVars, platformVars>>

\* s.close(callback): every connection of the old listener has ended
ServerClosed(i) == FcSettle(i, TRUE)
\* c.destroy(callback)
ClientDestroyed(i) == FcSettle(i, FALSE)

\* a teardown without its timers
TeardownTimeoutNone(i, which) == FALSE /\ UNCHANGED vars
\* the timers that bound a teardown: setTimeout(res, 2000) in mediaServer.destroy,
\* setTimeout(res, 3000) in torrentManager.destroy, and the 5000 ms arm of the
\* Promise.race in forceCleanup
TeardownTimeout(i, which) ==
    CASE which = "server" -> FcSettle(i, TRUE)
      [] which = "client" -> FcSettle(i, FALSE)
      [] OTHER ->
            /\ ~MicrotaskPending
            /\ ops[i].pc = "cleanup"
            /\ ops' = [ops EXCEPT ![i].pc = "fcResume", ![i].srvWait = FALSE, ![i].cliWait = FALSE]
            /\ UNCHANGED <<mediaVars, torrentVars, indexVars, servers, foreign, epoch, dlVars, httpVars>> /\ NoProgressReply /\ UNCHANGED <<deviceVars, platformVars>>
ServerCloseTimeout(i) == TeardownTimeout(i, "server")
ClientDestroyTimeout(i) == TeardownTimeout(i, "client")
CleanupRaceTimeout(i) == TeardownTimeout(i, "race")

\* a resetState that leaves the cast flag alone
mediaResetStateKeepsCast ==
    [activePort |-> 0, activeLocalFilePath |-> "null", isCastMode |-> isCastMode]
\* MediaServer.resetState
mediaResetState ==
    [activePort |-> 0, activeLocalFilePath |-> "null", isCastMode |-> FALSE]

\* forceCleanup after its await: resetState of both modules and the flags
FcFinish(i) ==
    /\ ops[i].pc = "fcResume"
    /\ activeFileIndex' = -1 /\ activeFileName' = "null"
    /\ activePort' = mediaResetState.activePort
    /\ activeLocalFilePath' = mediaResetState.activeLocalFilePath
    /\ isCastMode' = mediaResetState.isCastMode
    /\ isClean' = TRUE
    /\ cleanupPromise' = 0
    /\ streamReadyPromise' = 0
    /\ ops' = [TeardownResolved(ops, i) EXCEPT ![i].pc = "fcDone"]
    /\ UNCHANGED <<activeServer, client, activeTorrent, progressInterval, servers, foreign, epoch>>
    /\ UNCHANGED <<dlVars, httpVars>> /\ NoProgressReply /\ UNCHANGED <<deviceVars, platformVars>>

\* ----------------------------------------------------------- startStream
\* startStream up to its first suspension: tear the previous session down
\* when a listener or a client is tracked, else go on to the acquisition
StartStream(m) ==
    /\ ~MicrotaskPending
    /\ MayLaunch
    /\ LET i == Len(ops) + 1
           marked == [j \in OpIds |-> IF ops[j].pc = "cleanup" THEN [ops[j] EXCEPT !.ssDuring = TRUE] ELSE ops[j]]
           o == Append(marked, [NewOp("start") EXCEPT !.magnet = m])
       IN IF NeedsCleanup
          THEN /\ forceCleanupStart(i, o)
               /\ UNCHANGED <<activePort, isCastMode, activeLocalFilePath, activeFileIndex,
                              activeFileName, isClean, cleanupPromise, streamReadyPromise, foreign>>
          ELSE /\ ops' = [o EXCEPT ![i].pc = "acquire"]
               /\ UNCHANGED <<mediaVars, torrentVars, indexVars, servers, foreign, epoch>>
    /\ UNCHANGED <<dlVars, httpVars>> /\ NoProgressReply /\ UNCHANGED <<deviceVars, platformVars>>

\* serveTorrent, line 153, with the ephemeral fallback missing
UseEphemeralNever(retryPort) == FALSE
\* serveTorrent, line 150: err.code === 'EADDRINUSE' && retryPort < 5
RetryNext(retryPort) == retryPort < MaxRetryPort
\* serveTorrent, line 153: retryPort >= 5
UseEphemeral(retryPort) == retryPort >= MaxRetryPort

\* mediaServer.serveTorrent(torrent, fileIndex, fileName, {onReady, retryPort})
\* with finalizeStart and the onReady closure of startStream
serveTorrent(i, o, retryPort) ==
    LET srv1 == Close(servers, activeServer)
        host == IF isCastMode THEN Wildcard ELSE Loopback
        portToTry == PREFERRED_PORT + retryPort
        inUse == PortInUse(srv1, portToTry)
        files == Files(o[i].magnet)
        fileIndex == MainFileIndex(files)
        fileName == files[fileIndex + 1].name
        tried1 == Append(o[i].tried, portToTry)
    IN  /\ activeLocalFilePath' = "null"
        /\ IF inUse /\ RetryNext(retryPort)
           THEN /\ servers' = srv1
                /\ activeServer' = 0
                /\ activePort' = activePort
                /\ ops' = [o EXCEPT ![i].pc = "retry", ![i].retry = retryPort + 1,
                                    ![i].tried = tried1]
           ELSE IF inUse /\ ~UseEphemeral(retryPort)
           THEN \* the error handler takes no branch: the server object stays
                \* tracked, unbound, and finalizeStart never runs
                /\ servers' = Append(srv1, [ClosedServer EXCEPT !.owner = i])
                /\ activeServer' = Len(srv1) + 1
                /\ activePort' = activePort
                /\ ops' = [o EXCEPT ![i].pc = "unbound", ![i].tried = tried1]
           ELSE \E lip \in getLocalIP :
                LET port == IF inUse THEN EphemeralPort(srv1) ELSE portToTry
                    urlHost == IF isCastMode THEN lip ELSE Loopback
                    url == TorrentUrl(urlHost, port, fileIndex, fileName)
                IN  /\ servers' = Append(srv1, NewServer(host, port, "torrent", i, i, isCastMode))
                    /\ activeServer' = Len(srv1) + 1
                    /\ activePort' = port
                    /\ ops' = [o EXCEPT ![i].pc = "done", ![i].retry = 0,
                                        ![i].gate = IF @ = "pending" THEN "true" ELSE @,
                                        ![i].res = url, ![i].ready = @ + 1,
                                        ![i].tried = IF inUse THEN Append(tried1, 0) ELSE tried1]

\* mediaServer.serveLocalFile(filePath, onReady) with the onReady closure
serveLocalFile(i, o) ==
    \E lip \in getLocalIP :
    LET srv1 == Close(servers, activeServer)
        host == IF isCastMode THEN Wildcard ELSE Loopback
        port == EphemeralPort(srv1)
        urlHost == IF isCastMode THEN lip ELSE Loopback
    IN  /\ servers' = Append(srv1, NewServer(host, port, "local", i, 0, FALSE))
        /\ activeServer' = Len(srv1) + 1
        /\ activePort' = port
        /\ activeLocalFilePath' = LocalPath(o[i].magnet)
        /\ ops' = [o EXCEPT ![i].pc = "done",
                            ![i].gate = IF @ = "pending" THEN "true" ELSE @,
                            ![i].res = VideoUrl(urlHost, port), ![i].ready = @ + 1]

\* the fullCleanup call that is in its 500 ms delay (the latest, 0 when none)
DelayRunning ==
    LET waiting == {j \in OpIds : ops[j].pc = "delay"}
    IN IF waiting = {} THEN 0 ELSE CHOOSE j \in waiting : \A k \in waiting : k <= j

\* startStream from `isClean = false` to the await of addTorrent, and
\* addTorrent up to client.add; a local file is served in the same task
Acquire(i) ==
    /\ ops[i].kind = "start"
    /\ ops[i].pc \in {"acquire", "fcDone"}
    /\ isClean' = FALSE
    /\ streamReadyPromise' = i
    /\ epoch' = epoch + 1
    /\ LET teardown == \E j \in OpIds : /\ j # i /\ ops[j].kind = "start"
                                          /\ ops[j].pc \in {"cleanup", "fcResume", "fcDone"}
           o == [ops EXCEPT ![i].gate = "pending", ![i].acqDuring = teardown,
                            ![i].inDelay = DelayRunning]
       IN IF LocalFileExists(ops[i].magnet)
          THEN /\ serveLocalFile(i, o)
               /\ UNCHANGED <<isCastMode, torrentVars, cleanupPromise, progressInterval, foreign>>
          ELSE /\ client' = i
               /\ ops' = [o EXCEPT ![i].pc = "adding", ![i].cl = "alive", ![i].tor = "pending"]
               /\ UNCHANGED <<mediaVars, activeTorrent, activeFileIndex, activeFileName,
                              cleanupPromise, progressInterval, servers, foreign>>
    /\ UNCHANGED <<dlVars, httpVars>> /\ NoProgressReply /\ UNCHANGED <<deviceVars, platformVars>>

\* the callback of client.add, and startStream from the await to its return
TorrentAdded(i) ==
    /\ ops[i].pc = "adding" /\ ops[i].cl = "alive" /\ ops[i].tor = "pending"
    /\ ~MicrotaskPending
    /\ activeTorrent' = i
    /\ LET files == Files(ops[i].magnet)
           o == [ops EXCEPT ![i].tor = "ready"]
       IN IF files = << >>
          THEN \* reduce of an empty array throws: reject, then the catch of startStream
               /\ ops' = [o EXCEPT ![i].pc = "done", ![i].gate = "false"]
               /\ isClean' = TRUE
               /\ UNCHANGED <<mediaVars, client, activeFileIndex, activeFileName, cleanupPromise,
                              progressInterval, streamReadyPromise, servers, foreign, epoch>>
          ELSE /\ activeFileIndex' = MainFileIndex(files)
               /\ activeFileName' = files[MainFileIndex(files) + 1].name
               /\ serveTorrent(i, o, 0)
               /\ progressInterval' = i
               /\ UNCHANGED <<isCastMode, client, isClean, cleanupPromise, streamReadyPromise,
                              foreign, epoch>>
    /\ UNCHANGED <<dlVars, httpVars>> /\ NoProgressReply /\ UNCHANGED <<deviceVars, platformVars>>

\* the 100 ms retry timer of serveTorrent's error handler
ServeRetry(i) ==
    /\ ops[i].pc = "retry"
    /\ ~MicrotaskPending
    /\ IF ops[i].tor = "destroyed"
       THEN \* closeServer(), then torrent.createServer() throws in the timer
            /\ servers' = Close(servers, activeServer)
            /\ activeServer' = 0
            /\ ops' = [ops EXCEPT ![i].pc = "done"]
            /\ UNCHANGED <<activePort, activeLocalFilePath>>
       ELSE serveTorrent(i, ops, ops[i].retry)
    /\ UNCHANGED <<isCastMode, torrentVars, indexVars, foreign, epoch>>
    /\ UNCHANGED <<dlVars, httpVars>> /\ NoProgressReply /\ UNCHANGED <<deviceVars, platformVars>>

\* the torrent emits 'error' and destroys itself with its servers
TorrentError(i) ==
    /\ ops[i].cl = "alive" /\ ops[i].tor = "ready"
    /\ ~MicrotaskPending
    /\ ops' = [ops EXCEPT ![i].tor = "destroyed"]
    /\ servers' = CloseTorrentServers(servers, i)
    /\ UNCHANGED <<mediaVars, torrentVars, indexVars, foreign, epoch>>
    /\ UNCHANGED <<dlVars, httpVars>> /\ NoProgressReply /\ UNCHANGED <<deviceVars, platformVars>>

\* an error of the torrent before its metadata arrived: the engine destroys
\* the torrent, client.on('error') logs it, and the callback of client.add
\* never runs
AcquisitionError(i) ==
    /\ ops[i].pc = "adding" /\ ops[i].cl = "alive" /\ ops[i].tor = "pending"
    /\ ~MicrotaskPending
    /\ ops' = [ops EXCEPT ![i].tor = "destroyed"]
    /\ UNCHANGED <<mediaVars, torrentVars, indexVars, servers, foreign, epoch>>
    /\ UNCHANGED <<dlVars, httpVars>> /\ NoProgressReply /\ UNCHANGED <<deviceVars, platformVars>>

\* the failure replies sent by the start-stream handler: it passes no error
\* callback and startStream's catch block only logs
FailureSignals(i) == 0

\* a piece of the torrent is downloaded and verified
PieceDownloaded(i) ==
    /\ ops[i].cl = "alive" /\ ops[i].tor = "ready"
    /\ ~MicrotaskPending
    /\ downloaded[i] < NumPieces
    /\ downloaded' = [downloaded EXCEPT ![i] = @ + 1]
    /\ report' = NoStats
    /\ UNCHANGED <<streamVars, dlVars, httpVars, deviceVars, platformVars>>

\* TorrentManager.getProgress(): null, or the stats of activeTorrent
\* (progress in pieces: NumPieces is torrent.progress = 1)
NoProgress == -1
getProgress ==
    IF activeTorrent = 0 \/ ops[activeTorrent].tor = "destroyed"
    THEN NoProgress
    ELSE downloaded[activeTorrent]

\* the setInterval callback of startStream: getProgress() and the self-cancel,
\* or onProgress(stats) of the startStream call that set the interval.
\* full counts the replies with progress = 1 this interval has sent in a row.
ProgressTick ==
    /\ progressInterval # 0
    /\ ~MicrotaskPending
    /\ LET stats == getProgress
       IN IF stats = NoProgress
          THEN /\ progressInterval' = 0
               /\ report' = NoStats
          ELSE /\ progressInterval' = progressInterval
               /\ report' = [sink |-> progressInterval, tor |-> activeTorrent, progress |-> stats,
                             full |-> IF stats # NumPieces THEN 0
                                      ELSE IF report.sink = progressInterval /\ report.full > 0
                                      THEN MaxFull ELSE 1]
    /\ UNCHANGED downloaded
    /\ UNCHANGED <<mediaVars, torrentVars, isClean, cleanupPromise, streamReadyPromise,
                   servers, foreign, ops, epoch>>
    /\ UNCHANGED <<dlVars, httpVars, deviceVars, platformVars>>

\* ----------------------------------------------------------- fullCleanup
\* fullCleanup up to its first suspension
fullCleanup(i, o) ==
    IF isClean
    THEN /\ ops' = [o EXCEPT ![i].pc = "done"]
         /\ UNCHANGED <<mediaVars, torrentVars, indexVars, servers, foreign, epoch>>
    ELSE IF cleanupPromise # 0
    THEN /\ ops' = [o EXCEPT ![i].pc = "joined", ![i].join = cleanupPromise]
         /\ UNCHANGED <<mediaVars, torrentVars, indexVars, servers, foreign, epoch>>
    ELSE /\ forceCleanupStart(i, o)
         /\ cleanupPromise' = i
         /\ UNCHANGED <<activePort, isCastMode, activeLocalFilePath, activeFileIndex,
                        activeFileName, isClean, streamReadyPromise, foreign>>

\* a fullCleanup call enters the operations issued so far
NewFull(variant) ==
    LET inflight == {j \in OpIds : FullActive(ops, j)}
    IN  [NewOp("full") EXCEPT
            !.variant = variant,
            !.during = IF inflight = {} THEN 0 ELSE CHOOSE j \in inflight : \A k \in inflight : k <= j,
            !.quiet = AllDone(ops)]

\* 'stop-stream': fullCleanup up to its first suspension
FullCleanup ==
    /\ ~MicrotaskPending
    /\ MayLaunch
    /\ fullCleanup(Len(ops) + 1, Append(ops, NewFull("none")))
    /\ UNCHANGED <<dlVars, httpVars>> /\ NoProgressReply /\ UNCHANGED <<deviceVars, platformVars>>

\* the body of cleanupPromise after `await forceCleanup()`: start the 500 ms delay
FullAfterFc(i) ==
    /\ ops[i].kind = "full"
    /\ ops[i].pc = "fcDone"
    /\ ops' = [ops EXCEPT ![i].pc = "delay"]
    /\ UNCHANGED <<mediaVars, torrentVars, indexVars, servers, foreign, epoch>>
    /\ UNCHANGED <<dlVars, httpVars>> /\ NoProgressReply /\ UNCHANGED <<deviceVars, platformVars>>

\* the 500 ms timer: cleanCache(), and cleanupPromise resolves
cleanCache(i) ==
    /\ ops[i].pc = "delay"
    /\ ~MicrotaskPending
    /\ ops' = [ops EXCEPT ![i].pc = "done", ![i].nCc = @ + 1]
    /\ UNCHANGED <<mediaVars, torrentVars, indexVars, servers, foreign, epoch>>
    /\ UNCHANGED <<dlVars, httpVars>> /\ NoProgressReply /\ UNCHANGED <<deviceVars, platformVars>>

\* a fullCleanup call that returned the pending cleanupPromise resolves with it
JoinResume(i) ==
    /\ ops[i].pc = "joined"
    /\ Finished(ops, ops[i].join)
    /\ ops' = [ops EXCEPT ![i].pc = "done"]
    /\ UNCHANGED <<mediaVars, torrentVars, indexVars, servers, foreign, epoch>>
    /\ UNCHANGED <<dlVars, httpVars>> /\ NoProgressReply /\ UNCHANGED <<deviceVars, platformVars>>

\* ----------------------------------------------------------- stop-casting
\* 'stop-casting' up to its first suspension: castManager.stopCasting() awaits
\* provider.stop(activeDevice); with no active device it returns and the
\* handler goes on to fullCleanup in the same task
StopCasting ==
    /\ ~MicrotaskPending
    /\ MayLaunch
    /\ IF activeDevice = NoDevice
       THEN fullCleanup(Len(ops) + 1, Append(ops, NewFull("stopcast")))
       ELSE /\ ops' = Append(ops, [NewOp("stopcast") EXCEPT !.pc = "stopping", !.variant = "stopcast",
                                                               !.quiet = AllDone(ops)])
            /\ UNCHANGED <<mediaVars, torrentVars, indexVars, servers, foreign, epoch>>
    /\ UNCHANGED <<dlVars, httpVars>> /\ NoProgressReply /\ UNCHANGED <<deviceVars, platformVars>>

\* provider.stop settles: stopCasting clears activeDevice and the try block
\* calls fullCleanup, or stop rejected and the catch block calls fullCleanup
ProviderStop(i, ok) ==
    /\ ops[i].pc = "stopping"
    /\ ~MicrotaskPending
    /\ activeDevice' = IF ok THEN NoDevice ELSE activeDevice
    /\ fullCleanup(i, [ops EXCEPT ![i] = [NewFull("stopcast") EXCEPT
                                            !.quiet = ops[i].quiet,
                                            !.nErr = IF ok THEN 0 ELSE 1]])
    /\ UNCHANGED <<dlVars, httpVars>> /\ NoProgressReply /\ UNCHANGED platformVars

\* the awaited fullCleanup has resolved: event.reply('cast-stopped'), and the
\* handler returns
CastStopped(i) ==
    /\ ops[i].pc = "done" /\ ops[i].variant = "stopcast"
    /\ ops' = [ops EXCEPT ![i] = [NewOp("retired") EXCEPT
                    !.pc = "retired", !.variant = "stopcast", !.nErr = ops[i].nErr,
                    !.nConn = ops[i].nConn + 1]]
    /\ UNCHANGED <<mediaVars, torrentVars, indexVars, servers, foreign, epoch>>
    /\ UNCHANGED <<dlVars, httpVars>> /\ NoProgressReply /\ UNCHANGED <<deviceVars, platformVars>>

\* ------------------------------------------------------ serveLocalFolder
\* streaming.serveLocalFolder and localFolder.serveLocalFolder (play-local)
serveLocalFolder(exists) ==
    /\ ~MicrotaskPending
    /\ MayLaunch
    /\ isClean' = FALSE
    /\ LET i == Len(ops) + 1
           o == Append(ops, [NewOp("folder") EXCEPT !.pc = "done"])
       IN IF ~exists
          THEN /\ ops' = o
               /\ servers' = servers
          ELSE \E lip \in getLocalIP :
               LET host == IF isCastMode THEN Wildcard ELSE Loopback
                   port == EphemeralPort(servers)
                   urlHost == IF isCastMode THEN lip ELSE Loopback
               IN /\ servers' = Append(servers, NewServer(host, port, "folder", i, 0, FALSE))
                  /\ ops' = [o EXCEPT ![i].res = VideoUrl(urlHost, port), ![i].ready = 1]
    /\ UNCHANGED <<mediaVars, torrentVars, cleanupPromise, progressInterval, streamReadyPromise,
                   foreign, epoch>>
    /\ UNCHANGED <<dlVars, httpVars>> /\ NoProgressReply /\ UNCHANGED <<deviceVars, platformVars>>

\* ------------------------------------------------------------ cast flow
\* 'cast-device-selected' up to its first await (reply cast-mute-local, 100 ms).
\* variant "ipc" is the handler of ipc/cast-ipc, "main" the one of main.js
CastDeviceSelected(variant) ==
    /\ ~MicrotaskPending
    /\ MayLaunch
    /\ ops' = Append(ops, [NewOp("cast") EXCEPT
                !.pc = "mute", !.variant = variant,
                !.quiet = AllDone(ops),
                !.srv0 = IF AllDone(ops) /\ activeServer # 0 /\ Listening(activeServer)
                         THEN activeServer ELSE 0])
    /\ UNCHANGED <<mediaVars, torrentVars, indexVars, servers, foreign, epoch>>
    /\ UNCHANGED <<dlVars, httpVars>> /\ NoProgressReply /\ UNCHANGED <<deviceVars, platformVars>>

\* cast listeners bound by an earlier rebind of the current session
BoundCasts == {s \in SrvIds : servers[s].kind = "cast" /\ servers[s].ep = epoch}

\* after the 100 ms: setCastMode(true), getLocalIP(), and rebindServerForCast
\* up to the wait for streamReadyPromise
rebindServerForCast(i) ==
    /\ ops[i].pc = "mute"
    /\ ~MicrotaskPending
    /\ isCastMode' = TRUE
    /\ \E localIp \in getLocalIP :
         ops' = [ops EXCEPT ![i].ip = localIp,
                            ![i].g = streamReadyPromise,
                            ![i].pc = IF streamReadyPromise # 0 THEN "gate" ELSE "rebind",
                            ![i].prev = IF BoundCasts = {} THEN 0
                                        ELSE CHOOSE j \in BoundCasts : \A k \in BoundCasts : k <= j]
    /\ UNCHANGED <<activeServer, activePort, activeLocalFilePath, torrentVars, indexVars,
                   servers, foreign, epoch>>
    /\ UNCHANGED <<dlVars, httpVars>> /\ NoProgressReply /\ UNCHANGED <<deviceVars, platformVars>>

\* the awaited streamReadyPromise has resolved
GateResume(i) ==
    /\ ops[i].pc = "gate"
    /\ ops[ops[i].g].gate \in {"true", "false"}
    /\ ops' = [ops EXCEPT ![i].pc = IF ops[ops[i].g].gate = "true" THEN "rebind" ELSE "result",
                          ![i].res = NullUrl]
    /\ UNCHANGED <<mediaVars, torrentVars, indexVars, servers, foreign, epoch>>
    /\ UNCHANGED <<dlVars, httpVars>> /\ NoProgressReply /\ UNCHANGED <<deviceVars, platformVars>>

\* the 30 s timer of the race wins
GateTimeout(i) ==
    /\ ops[i].pc = "gate"
    /\ ~MicrotaskPending
    /\ ops' = [ops EXCEPT ![i].pc = "result", ![i].res = NullUrl]
    /\ UNCHANGED <<mediaVars, torrentVars, indexVars, servers, foreign, epoch>>
    /\ UNCHANGED <<dlVars, httpVars>> /\ NoProgressReply /\ UNCHANGED <<deviceVars, platformVars>>

\* rebindForCast, line 10, with the check dropped
NoSourceNever(hasTorrent, hasLocalFile) == FALSE
\* rebindForCast, line 10: !hasTorrent && !hasLocalFile
NoSource(hasTorrent, hasLocalFile) == ~hasTorrent /\ ~hasLocalFile

\* castServer.rebindForCast up to its setTimeout
rebindForCast(i) ==
    /\ ops[i].pc = "rebind"
    /\ LET hasTorrent == hasActiveTorrent
           hasLocalFile == activeLocalFilePath # "null"
       IN IF NoSource(hasTorrent, hasLocalFile)
          THEN /\ ops' = [ops EXCEPT ![i].pc = "result", ![i].res = NullUrl]
               /\ UNCHANGED <<activeServer, servers>>
          ELSE /\ servers' = Close(servers, activeServer)
               /\ activeServer' = 0
               /\ ops' = [ops EXCEPT ![i].pc = "castTimer", ![i].hasT = hasTorrent]
    /\ UNCHANGED <<activePort, isCastMode, activeLocalFilePath, torrentVars, indexVars, foreign, epoch>>
    /\ UNCHANGED <<dlVars, httpVars>> /\ NoProgressReply /\ UNCHANGED <<deviceVars, platformVars>>

\* the listen of a cast server: CAST_PORT, or port 0 on EADDRINUSE
CastListen(i, tor, url0) ==
    LET port == IF PortInUse(servers, CAST_PORT) THEN EphemeralPort(servers) ELSE CAST_PORT
    IN  /\ servers' = Append(servers, [NewServer(Wildcard, port, "cast", i, tor, TRUE)
                                           EXCEPT !.prev = ops[i].prev])
        /\ ops' = [ops EXCEPT ![i].pc = "result", ![i].res = [url0 EXCEPT !.port = port]]

\* the 100 ms timer of rebindForCast: createCastServer
createCastServer(i) ==
    /\ ops[i].pc = "castTimer"
    /\ ~MicrotaskPending
    /\ IF ops[i].hasT
       THEN \* createTorrentCastServer
            IF activeTorrent = 0
            THEN ops' = [ops EXCEPT ![i].pc = "result", ![i].res = NullUrl] /\ servers' = servers
            ELSE IF ops[activeTorrent].tor = "destroyed"
            THEN \* torrent.createServer() throws in the timer: the promise never resolves
                 ops' = [ops EXCEPT ![i].pc = "hung"] /\ servers' = servers
            ELSE CastListen(i, activeTorrent, TorrentUrl(ops[i].ip, 0, activeFileIndex, activeFileName))
       ELSE \* createLocalCastServer
            IF activeLocalFilePath = "null"
            THEN ops' = [ops EXCEPT ![i].pc = "result", ![i].res = NullUrl] /\ servers' = servers
            ELSE CastListen(i, 0, VideoUrl(ops[i].ip, 0))
    /\ UNCHANGED <<mediaVars, torrentVars, indexVars, foreign, epoch>>
    /\ UNCHANGED <<dlVars, httpVars>> /\ NoProgressReply /\ UNCHANGED <<deviceVars, platformVars>>

\* the handler after `await streaming.rebindServerForCast(localIp)`: the
\* checks of streamUrl, then playOnDevice is called, or the catch block runs
CastAfterRebind(i) ==
    /\ ops[i].pc = "result"
    /\ LET streamUrl == ops[i].res
           throws == IF ops[i].variant = "ipc"
                     THEN streamUrl = NullUrl \/ Includes127(streamUrl)
                     ELSE streamUrl # NullUrl /\ Includes127(streamUrl)
       IN IF throws
          THEN /\ ops' = [ops EXCEPT ![i].pc = "done", ![i].nErr = @ + 1]
               /\ isCastMode' = FALSE
               /\ activeDevice' = activeDevice
          ELSE /\ ops' = [ops EXCEPT ![i].pc = "playing", ![i].played = streamUrl]
               /\ isCastMode' = isCastMode
               /\ activeDevice' = Device
    /\ UNCHANGED <<activeServer, activePort, activeLocalFilePath, torrentVars, indexVars,
                   servers, foreign, epoch>>
    /\ UNCHANGED <<dlVars, httpVars>> /\ NoProgressReply /\ UNCHANGED platformVars

\* castManager.playOnDevice resolves: reply cast-connected
PlayResolved(i) ==
    /\ ops[i].pc = "playing"
    /\ ~MicrotaskPending
    /\ ops' = [ops EXCEPT ![i].pc = "done", ![i].nConn = @ + 1]
    /\ UNCHANGED <<mediaVars, torrentVars, indexVars, servers, foreign, epoch>>
    /\ UNCHANGED <<dlVars, httpVars>> /\ NoProgressReply /\ UNCHANGED <<deviceVars, platformVars>>

\* castManager.playOnDevice rejects: the catch block
PlayRejected(i) ==
    /\ ops[i].pc = "playing"
    /\ ~MicrotaskPending
    /\ ops' = [ops EXCEPT ![i].pc = "done", ![i].nErr = @ + 1]
    /\ isCastMode' = FALSE
    /\ UNCHANGED <<activeServer, activePort, activeLocalFilePath, torrentVars, indexVars,
                   servers, foreign, epoch>>
    /\ UNCHANGED <<dlVars, httpVars>> /\ NoProgressReply /\ UNCHANGED <<deviceVars, platformVars>>

\* a finished operation: its caller has its outcome, and only the objects it
\* created (client, torrent, ready promise) remain
Retire(i) ==
    /\ ops[i].pc = "done" /\ ops[i].variant # "stopcast"
    /\ ops' = [ops EXCEPT ![i] = [NewOp("retired") EXCEPT !.pc = "retired", !.cl = ops[i].cl,
                                                         !.tor = ops[i].tor, !.gate = ops[i].gate]]
    /\ UNCHANGED <<mediaVars, torrentVars, indexVars, servers, foreign, epoch>>
    /\ UNCHANGED <<dlVars, httpVars>> /\ NoProgressReply /\ UNCHANGED <<deviceVars, platformVars>>

\* ------------------------------------------------------ DownloadManager
\* `new WebTorrent()`: a fresh object.  The streaming clients are the objects
\* 1 .. MaxOps (one per startStream that reached `new WebTorrent`).
NewWebTorrentShared == IF client # 0 THEN client ELSE MaxOps + 1
NewWebTorrent == MaxOps + 1

\* a startDownload call: its position, the torrent its client.add created
\* (tor), the torrent its torrent-added callback received (t)
NewDl(h) ==
    [hash |-> h, pc |-> "new", tor |-> "none", t |-> 0,
     adds |-> 0,                \* calls of downloadClient.add
     dup |-> FALSE,             \* the client held a torrent of this hash at that call
     fin |-> 0, complete |-> 0] \* runs of finalizeDownload / of onComplete

DlIds == 1 .. Len(dls)

\* the torrents of downloadClient.torrents with this infoHash
ClientTorrents(h) == {k \in DlIds : dls[k].hash = h /\ dls[k].tor \in {"pending", "ready"}}

\* startDownload from the metadata write to the return of downloadClient.add.
\* A torrent whose infoHash the client already holds is destroyed as a
\* duplicate in the next microtask; depending on the engine's version the
\* callback is then called with the torrent already held (dupCb) or not at all.
DownloadAdd(k, d, dupCb) ==
    LET h == d[k].hash
        held == ClientTorrents(h)
        e == CHOOSE x \in held : \A y \in held : x <= y
    IN IF held = {}
       THEN /\ dls' = [d EXCEPT ![k].pc = "adding", ![k].tor = "pending", ![k].adds = 1]
            /\ UNCHANGED activeDownloads
       ELSE IF dupCb
       THEN /\ dls' = [d EXCEPT ![k].pc = "active", ![k].tor = "destroyed", ![k].adds = 1,
                                ![k].dup = TRUE, ![k].t = e]
            /\ activeDownloads' = [activeDownloads EXCEPT ![h] = e]
       ELSE /\ dls' = [d EXCEPT ![k].pc = "failed", ![k].tor = "destroyed", ![k].adds = 1,
                                ![k].dup = TRUE]
            /\ UNCHANGED activeDownloads

\* startDownload up to its first await or to its return
StartDownload(h, subtitleUrl, dupCb) ==
    /\ ~MicrotaskPending
    /\ Len(dls) < MaxDownloads
    /\ downloadClient' = IF downloadClient = 0 THEN NewWebTorrent ELSE downloadClient
    /\ LET k == Len(dls) + 1
           d == Append(dls, NewDl(h))
       IN IF activeDownloads[h] # 0
          THEN /\ dls' = [d EXCEPT ![k].pc = "already"]
               /\ UNCHANGED <<activeDownloads, dirs>>
          ELSE /\ dirs' = [dirs EXCEPT ![h] = IF @ = "none" THEN "empty" ELSE @]
               /\ IF subtitleUrl
                  THEN /\ dls' = [d EXCEPT ![k].pc = "subs"]
                       /\ UNCHANGED activeDownloads
                  ELSE DownloadAdd(k, d, dupCb)
    /\ UNCHANGED <<rmTimers, stored, streamVars, httpVars>> /\ NoProgressReply /\ UNCHANGED <<deviceVars, platformVars>>

\* startDownload from the await of subtitles.downloadSubtitle to its return
SubtitleDone(k, dupCb) ==
    /\ ~MicrotaskPending
    /\ dls[k].pc = "subs"
    /\ DownloadAdd(k, dls, dupCb)
    /\ UNCHANGED <<downloadClient, dirs, rmTimers, stored, streamVars, httpVars>> /\ NoProgressReply /\ UNCHANGED <<deviceVars, platformVars>>

\* the callback of downloadClient.add
DownloadTorrentAdded(k) ==
    /\ ~MicrotaskPending
    /\ dls[k].pc = "adding" /\ dls[k].tor = "pending"
    /\ dls' = [dls EXCEPT ![k].pc = "active", ![k].tor = "ready", ![k].t = k]
    /\ activeDownloads' = [activeDownloads EXCEPT ![dls[k].hash] = k]
    /\ UNCHANGED <<downloadClient, dirs, rmTimers, stored, streamVars, httpVars>> /\ NoProgressReply /\ UNCHANGED <<deviceVars, platformVars>>

\* an error of a download torrent: the engine destroys it, and the listeners
\* registered on it by torrent-added callbacks run
DownloadTorrentError(e) ==
    /\ ~MicrotaskPending
    /\ dls[e].tor \in {"pending", "ready"}
    /\ LET listeners == {k \in DlIds : dls[k].pc = "active" /\ dls[k].t = e}
       IN /\ dls' = [k \in DlIds |->
                        IF k \in listeners
                        THEN [dls[k] EXCEPT !.pc = "failed",
                                            !.tor = IF k = e THEN "destroyed" ELSE @]
                        ELSE IF k = e THEN [dls[k] EXCEPT !.tor = "destroyed"]
                        ELSE dls[k]]
          /\ activeDownloads' = IF listeners = {} THEN activeDownloads
                                ELSE [activeDownloads EXCEPT ![dls[e].hash] = 0]
    /\ UNCHANGED <<downloadClient, dirs, rmTimers, stored, streamVars, httpVars>> /\ NoProgressReply /\ UNCHANGED <<deviceVars, platformVars>>

\* the 1 s interval of a torrent-added callback, on a tick that ends it: the
\* torrent is destroyed, or its progress is 1 and finalizeDownload begins
DownloadTick(k) ==
    /\ ~MicrotaskPending
    /\ dls[k].pc = "active"
    /\ LET e == dls[k].t
       IN \/ /\ dls[e].tor = "destroyed"
             /\ dls' = [dls EXCEPT ![k].pc = "stopped"]
             /\ UNCHANGED dirs
          \/ /\ dls[e].tor = "ready"
             /\ dls' = [dls EXCEPT ![k].pc = "finalizing", ![k].fin = @ + 1, ![e].tor = "destroyed"]
             /\ dirs' = [dirs EXCEPT ![dls[k].hash] = IF @ = "video" THEN @ ELSE "file"]
    /\ UNCHANGED <<downloadClient, activeDownloads, rmTimers, stored, streamVars, httpVars>> /\ NoProgressReply /\ UNCHANGED <<deviceVars, platformVars>>

\* finalizeDownload: the callback of torrent.destroy
DownloadDestroyed(k) ==
    /\ ~MicrotaskPending
    /\ dls[k].pc = "finalizing"
    /\ activeDownloads' = [activeDownloads EXCEPT ![dls[k].hash] = 0]
    /\ dls' = [dls EXCEPT ![k].pc = "timer"]
    /\ UNCHANGED <<downloadClient, dirs, rmTimers, stored, streamVars, httpVars>> /\ NoProgressReply /\ UNCHANGED <<deviceVars, platformVars>>

\* finalizeDownload: neither the downloaded file nor video.mp4 exists
NoVideoFileIgnored(d) == FALSE
NoVideoFile(d) == d \notin {"file", "video"}

\* finalizeDownload: the 500 ms timer; renameSync may throw
FinalizeTimer(k, renameOk) ==
    /\ ~MicrotaskPending
    /\ dls[k].pc = "timer"
    /\ LET h == dls[k].hash
       IN IF NoVideoFile(dirs[h]) \/ (dirs[h] = "file" /\ ~renameOk)
          THEN /\ dls' = [dls EXCEPT ![k].pc = "abandoned"]
               /\ UNCHANGED <<dirs, stored>>
          ELSE /\ dirs' = [dirs EXCEPT ![h] = IF @ = "file" THEN "video" ELSE @]
               /\ stored' = stored \cup {h}
               /\ dls' = [dls EXCEPT ![k].pc = "done", ![k].complete = @ + 1]
    /\ UNCHANGED <<downloadClient, activeDownloads, rmTimers, streamVars, httpVars>> /\ NoProgressReply /\ UNCHANGED <<deviceVars, platformVars>>

\* cancelDownload
CancelDownload(h) ==
    /\ ~MicrotaskPending
    /\ activeDownloads[h] # 0 \/ dirs[h] # "none"
    /\ IF activeDownloads[h] # 0
       THEN /\ dls' = [dls EXCEPT ![activeDownloads[h]].tor = "destroyed"]
            /\ activeDownloads' = [activeDownloads EXCEPT ![h] = 0]
       ELSE UNCHANGED <<dls, activeDownloads>>
    /\ rmTimers' = [rmTimers EXCEPT ![h] = IF dirs[h] # "none" THEN 1 ELSE @]
    /\ UNCHANGED <<downloadClient, dirs, stored, streamVars, httpVars>> /\ NoProgressReply /\ UNCHANGED <<deviceVars, platformVars>>

\* cancelDownload: the 500 ms timer that removes the directory, and its
\* 1000 ms retry when rmSync throws
CancelRemove(h, ok) ==
    /\ ~MicrotaskPending
    /\ rmTimers[h] # 0
    /\ dirs' = [dirs EXCEPT ![h] = IF ok THEN "none" ELSE @]
    /\ rmTimers' = [rmTimers EXCEPT ![h] = IF ok \/ @ = 2 THEN 0 ELSE 2]
    /\ UNCHANGED <<downloadClient, activeDownloads, dls, stored, streamVars, httpVars>> /\ NoProgressReply /\ UNCHANGED <<deviceVars, platformVars>>

\* the callbacks and timers of the downloads
DownloadSteps(k) ==
    \/ \E dupCb \in BOOLEAN : SubtitleDone(k, dupCb)
    \/ DownloadTorrentAdded(k)
    \/ DownloadTorrentError(k)
    \/ DownloadTick(k)
    \/ DownloadDestroyed(k)
    \/ \E renameOk \in BOOLEAN : FinalizeTimer(k, renameOk)


\* ---------------------------------------------------- serveVideoFile
\* the bytes of downloads/<hash>/video.mp4
FileBytes(filePath) == <<7, 8, 9>>

NaN == -1
\* parseInt(text, 10) of the texts used in Range headers
parseInt(text) ==
    CASE text = "0" -> 0 [] text = "1" -> 1 [] text = "2" -> 2 [] text = "9" -> 9
      [] OTHER -> NaN
\* the Range headers sent: none, bytes=0-, bytes=1-2, bytes=0-9 (past the end),
\* bytes=-2 (no first position), bytes=2-1 (last before first)
NoRange == [present |-> FALSE, first |-> "", last |-> ""]
RangeHeader(first, last) == [present |-> TRUE, first |-> first, last |-> last]
RangeHeaders ==
    {NoRange, RangeHeader("0", ""), RangeHeader("1", "2"), RangeHeader("0", "9"),
     RangeHeader("", "2"), RangeHeader("2", "1")}

Min(a, b) == IF a < b THEN a ELSE b

\* serveVideoFile(filePath, req, res): the response written for a Range header
serveVideoFileStateful(filePath, range) ==
    [status |-> 200, contentRange |-> << >>, contentLength |-> epoch,
     body |-> FileBytes(filePath), cors |-> TRUE, ended |-> TRUE]
serveVideoFile(filePath, range) ==
    LET bytes == FileBytes(filePath)
        fileSize == Len(bytes)
        start == parseInt(range.first)
        end == IF range.last # "" THEN parseInt(range.last) ELSE fileSize - 1
    IN IF ~range.present
       THEN [status |-> 200, contentRange |-> << >>, contentLength |-> fileSize,
             body |-> bytes, cors |-> TRUE, ended |-> TRUE]
       ELSE IF start = NaN \/ end = NaN \/ start > end
       THEN \* createReadStream throws after writeHead(206); the writeHead(500)
            \* of the catch block throws in turn: nothing more is written
            [status |-> 206, contentRange |-> <<start, end, fileSize>>,
             contentLength |-> IF start = NaN \/ end = NaN THEN NaN ELSE (end - start) + 1,
             body |-> << >>, cors |-> TRUE, ended |-> FALSE]
       ELSE [status |-> 206, contentRange |-> <<start, end, fileSize>>,
             contentLength |-> (end - start) + 1,
             body |-> SubSeq(bytes, start + 1, Min(end + 1, fileSize)),
             cors |-> TRUE, ended |-> TRUE]

\* the listeners whose request handler calls serveVideoFile: the one of
\* serveLocalFile and the cast listener of a local file
ServesVideoFile(s) ==
    /\ Listening(s)
    /\ servers[s].kind = "local" \/ (servers[s].kind = "cast" /\ servers[s].tor = 0)

\* ------------------------------------------------------ network-utils
\* the remote addresses of the requests
RemoteAddrs ==
    {"127.0.0.1", "::1", "::ffff:127.0.0.1", "127.0.0.2",
     "192.168.1.9", "::ffff:192.168.1.9", "192.168.2.9", "10.0.0.7",
     "172.16.0.1", "172.32.0.1", "169.254.1.1", "8.8.8.8", "::ffff:8.8.8.8",
     "2001:db8::1"}
\* what getLocalIP() can return on the machines considered by the filter
LocalIPs == getLocalIP \cup {"10.0.0.3", "172.16.0.9", "169.254.1.2"}

\* clientIP.startsWith('::ffff:') and clientIP.substring(7)
startsWithMapped(clientIP) ==
    clientIP \in {"::ffff:127.0.0.1", "::ffff:192.168.1.9", "::ffff:8.8.8.8"}
substring7(clientIP) ==
    CASE clientIP = "::ffff:127.0.0.1" -> "127.0.0.1"
      [] clientIP = "::ffff:192.168.1.9" -> "192.168.1.9"
      [] clientIP = "::ffff:8.8.8.8" -> "8.8.8.8"
\* ip.split('.')
split(ip) ==
    CASE ip = "127.0.0.1" -> <<"127", "0", "0", "1">>
      [] ip = "127.0.0.2" -> <<"127", "0", "0", "2">>
      [] ip = "192.168.1.5" -> <<"192", "168", "1", "5">>
      [] ip = "192.168.1.9" -> <<"192", "168", "1", "9">>
      [] ip = "192.168.2.9" -> <<"192", "168", "2", "9">>
      [] ip = "10.0.0.3" -> <<"10", "0", "0", "3">>
      [] ip = "10.0.0.7" -> <<"10", "0", "0", "7">>
      [] ip = "172.16.0.1" -> <<"172", "16", "0", "1">>
      [] ip = "172.16.0.9" -> <<"172", "16", "0", "9">>
      [] ip = "172.32.0.1" -> <<"172", "32", "0", "1">>
      [] ip = "169.254.1.1" -> <<"169", "254", "1", "1">>
      [] ip = "169.254.1.2" -> <<"169", "254", "1", "2">>
      [] ip = "8.8.8.8" -> <<"8", "8", "8", "8">>
      [] OTHER -> <<ip>>
\* Number(text) of the parts above
Number(text) ==
    CASE text = "0" -> 0 [] text = "1" -> 1 [] text = "2" -> 2 [] text = "3" -> 3
      [] text = "5" -> 5 [] text = "7" -> 7 [] text = "8" -> 8 [] text = "9" -> 9
      [] text = "10" -> 10 [] text = "16" -> 16 [] text = "32" -> 32
      [] text = "127" -> 127 [] text = "168" -> 168 [] text = "169" -> 169
      [] text = "172" -> 172 [] text = "192" -> 192 [] text = "254" -> 254
      [] OTHER -> NaN
\* parts[n] of an array: undefined past its end
Part(parts, n) == IF n + 1 <= Len(parts) THEN parts[n + 1] ELSE "undefined"

isPrivateIP(ip) ==
    LET parts == [n \in 1 .. Len(split(ip)) |-> Number(split(ip)[n])]
        p0 == parts[1]
        p1 == IF Len(parts) >= 2 THEN parts[2] ELSE NaN
    IN \/ p0 = 10
       \/ p0 = 172 /\ p1 >= 16 /\ p1 <= 31
       \/ p0 = 192 /\ p1 = 168
       \/ p0 = 169 /\ p1 = 254

\* `${parts[0]}.${parts[1]}.${parts[2]}`
getSubnet(ip) == <<Part(split(ip), 0), Part(split(ip), 1), Part(split(ip), 2)>>

\* validateLocalIP(clientIP); serverIP is what getLocalIP() returns in the call
validateLocalIPAnyPrivate(clientIP, serverIP) ==
    LET ip == IF startsWithMapped(clientIP) THEN substring7(clientIP) ELSE clientIP
    IN IF ip = "127.0.0.1" \/ ip = "::1" THEN TRUE
       ELSE isPrivateIP(ip)
validateLocalIP(clientIP, serverIP) ==
    LET ip == IF startsWithMapped(clientIP) THEN substring7(clientIP) ELSE clientIP
    IN IF ip = "127.0.0.1" \/ ip = "::1" THEN TRUE
       ELSE IF isPrivateIP(ip) THEN getSubnet(serverIP) = getSubnet(ip)
       ELSE FALSE

\* the calls of validateLocalIP that reach getLocalIP()
ReadsLocalIP(clientIP) ==
    LET ip == IF startsWithMapped(clientIP) THEN substring7(clientIP) ELSE clientIP
    IN ip # "127.0.0.1" /\ ip # "::1" /\ isPrivateIP(ip)

\* res.writeHead(403); res.end('Forbidden')
Forbidden ==
    [status |-> 403, contentRange |-> << >>, contentLength |-> NaN,
     body |-> << >>, cors |-> FALSE, ended |-> TRUE]

\* a request for the video from any address: the handler installed by
\* addSecurityMiddleware, or the handler of createLocalCastServer, answers
\* 403 or passes the request on to serveVideoFile
RemoteRequest(s, clientIP, serverIP) ==
    /\ ~MicrotaskPending
    /\ ServesVideoFile(s)
    \* a listener bound to 127.0.0.1 gets no request from another machine
    /\ servers[s].host = Wildcard
    \* getLocalIP() is called for a private address only: for the others one
    \* value stands for all
    /\ ReadsLocalIP(clientIP) \/ serverIP = Loopback
    /\ LET filePath == LocalPath("MLocal")
           r == [file |-> filePath, range |-> NoRange, srv |-> s,
                 remote |-> clientIP, lip |-> serverIP, filtered |-> servers[s].sec,
                 resp |-> IF servers[s].sec /\ ~validateLocalIP(clientIP, serverIP)
                          THEN Forbidden
                          ELSE serveVideoFile(filePath, NoRange)]
       IN /\ r \notin responses
          /\ responses' = responses \cup {r}
    /\ UNCHANGED <<streamVars, dlVars>> /\ NoProgressReply /\ UNCHANGED <<deviceVars, platformVars>>

\* a request for the video from an allowed address, answered by serveVideoFile
HttpRequest(s, range) ==
    /\ ~MicrotaskPending
    /\ ServesVideoFile(s)
    /\ LET filePath == LocalPath("MLocal")
           r == [file |-> filePath, range |-> range, srv |-> s,
                 remote |-> Loopback, lip |-> Loopback, filtered |-> servers[s].sec,
                 resp |-> serveVideoFile(filePath, range)]
       IN /\ r \notin responses
          /\ responses' = responses \cup {r}
    /\ UNCHANGED <<streamVars, dlVars>> /\ NoProgressReply /\ UNCHANGED <<deviceVars, platformVars>>

\* ------------------------------------------------------- specifications
\* the callbacks, timers and continuations of startStream and of the cleanups
SessionSteps(i) ==
    \/ ServerClosed(i) \/ ServerCloseTimeout(i)
    \/ ClientDestroyed(i) \/ ClientDestroyTimeout(i) \/ CleanupRaceTimeout(i)
    \/ FcFinish(i)
    \/ Acquire(i) \/ TorrentAdded(i) \/ ServeRetry(i) \/ TorrentError(i)
    \/ FullAfterFc(i) \/ cleanCache(i) \/ JoinResume(i)
    \/ Retire(i)

\* the timers and continuations of the cast flow
CastSteps(i) ==
    \/ rebindServerForCast(i) \/ GateResume(i) \/ GateTimeout(i)
    \/ rebindForCast(i) \/ createCastServer(i) \/ CastAfterRebind(i)
    \/ PlayResolved(i) \/ PlayRejected(i)

\* the continuations of the stop-casting handler
StopSteps(i) ==
    \/ \E ok \in BOOLEAN : ProviderStop(i, ok)
    \/ CastStopped(i)

Next ==
    \/ \E m \in Magnets : StartStream(m)
    \/ FullCleanup
    \/ \E e \in BOOLEAN : serveLocalFolder(e)
    \/ \E v \in {"ipc", "main"} : CastDeviceSelected(v)
    \/ ProgressTick
    \/ \E i \in OpIds : SessionSteps(i)
    \/ \E i \in OpIds : CastSteps(i)
    \/ \E i \in OpIds : AcquisitionError(i)
    \/ \E i \in OpIds : PieceDownloaded(i)
    \/ StopCasting
    \/ \E i \in OpIds : StopSteps(i)

Spec == Init /\ [][Next]_vars

\* startStream calls that do not overlap: each is issued after the previous
\* one has delivered its ready URL
StartStreamSeq(m) ==
    /\ \A j \in OpIds : ops[j].pc = "retired" /\ ops[j].gate = "true"
    /\ StartStream(m)

SeqSteps(i) ==
    \/ ServerClosed(i) \/ ServerCloseTimeout(i)
    \/ ClientDestroyed(i) \/ ClientDestroyTimeout(i) \/ CleanupRaceTimeout(i)
    \/ FcFinish(i)
    \/ Acquire(i) \/ TorrentAdded(i) \/ ServeRetry(i) \/ TorrentError(i)
    \/ Retire(i)

NextSeq ==
    \/ \E m \in Magnets : StartStreamSeq(m)
    \/ ProgressTick
    \/ \E i \in OpIds : SeqSteps(i)

SpecSeq == Init /\ [][NextSeq]_vars

\* non-overlapping startStream calls over swarms with every file list of
\* SelectMagnets
NextSelect ==
    \/ \E m \in SelectMagnets : StartStreamSeq(m)
    \/ ProgressTick
    \/ \E i \in OpIds : SeqSteps(i)

SpecSelect == Init /\ [][NextSelect]_vars

\* non-overlapping startStream calls, with any set of the fixed ports
\* PREFERRED_PORT .. PREFERRED_PORT + 5 held by other processes
BindChoices == SUBSET (PREFERRED_PORT .. PREFERRED_PORT + MaxRetryPort)
\* the event loop also runs the 100 ms retry timer of serveTorrent
BindFairness ==
    WF_vars(\E i \in OpIds :
                \/ ServeRetry(i)
                \/ FcFinish(i) \/ Acquire(i) \/ Retire(i)
                \/ ServerCloseTimeout(i) \/ ClientDestroyTimeout(i) \/ CleanupRaceTimeout(i))
SpecBind == InitWith(BindChoices) /\ [][NextSeq]_vars /\ BindFairness

\* start-stream, stop-stream and cast-device-selected (handler of ipc/cast-ipc)
\* in any order and overlap
NextSession ==
    \/ \E m \in Magnets : StartStream(m)
    \/ FullCleanup
    \/ CastDeviceSelected("ipc")
    \/ ProgressTick
    \/ \E i \in OpIds : SessionSteps(i)
    \/ \E i \in OpIds : CastSteps(i)

SpecSession == Init /\ [][NextSession]_vars

\* start-stream and stop-stream in any order and overlap
NextCleanup ==
    \/ \E m \in Magnets : StartStream(m)
    \/ FullCleanup
    \/ ProgressTick
    \/ \E i \in OpIds : SessionSteps(i)

SpecStartStop == Init /\ [][NextCleanup]_vars

\* what the event loop is sure to run: the continuation of an await whose
\* promise has resolved, and a timer that has been set.  The callbacks of the
\* listener and of the swarm engine (close, destroy, metadata) may never come.
EventLoopStep ==
    \E i \in OpIds :
        \/ ServerCloseTimeout(i) \/ ClientDestroyTimeout(i) \/ CleanupRaceTimeout(i)
        \/ FcFinish(i) \/ Acquire(i) \/ FullAfterFc(i) \/ cleanCache(i) \/ JoinResume(i)
        \/ Retire(i)

Fairness == WF_vars(EventLoopStep)

LiveSpec == Init /\ [][NextCleanup]_vars /\ Fairness

\* start-download and cancel-download requests in any order and overlap
NextDownload ==
    \/ \E h \in Hashes, subtitleUrl \in BOOLEAN, dupCb \in BOOLEAN :
            StartDownload(h, subtitleUrl, dupCb)
    \/ \E h \in Hashes : CancelDownload(h)
    \/ \E h \in Hashes, ok \in BOOLEAN : CancelRemove(h, ok)
    \/ \E k \in DlIds : DownloadSteps(k)

SpecDownload == Init /\ [][NextDownload]_vars

\* streaming requests (start-stream, stop-stream, cast-device-selected) handled
\* one after another, beside start-download and cancel-download requests for
\* one movie at any time, at most MaxOps requests in all; the steps of the
\* streaming requests and of the downloads interleave in every order
IsolationHash == "H1"
RequestBudget == Len(ops) + Len(dls) < MaxOps
NoRequestRunning == \A j \in OpIds : ops[j].pc \in {"retired", "playing"}
NextIsolation ==
    \/ RequestBudget /\ NoRequestRunning /\ (\E m \in Magnets : StartStream(m))
    \/ RequestBudget /\ NoRequestRunning /\ FullCleanup
    \/ RequestBudget /\ NoRequestRunning /\ CastDeviceSelected("ipc")
    \/ ProgressTick
    \/ \E i \in OpIds : SessionSteps(i)
    \/ \E i \in OpIds : CastSteps(i)
    \/ /\ RequestBudget
       /\ \E subtitleUrl \in BOOLEAN, dupCb \in BOOLEAN :
              StartDownload(IsolationHash, subtitleUrl, dupCb)
    \/ CancelDownload(IsolationHash)
    \/ \E ok \in BOOLEAN : CancelRemove(IsolationHash, ok)
    \/ \E k \in DlIds : DownloadSteps(k)

SpecIsolation == Init /\ [][NextIsolation]_vars

\* start-stream and cast-device-selected requests handled one after another,
\* and HTTP requests to the listeners at any time; at most MaxOps + 1 IPC and
\* HTTP requests in all
HttpBudget == Len(ops) + Cardinality(responses) <= MaxOps
NextHttp ==
    \/ HttpBudget /\ NoRequestRunning /\ (\E m \in Magnets : StartStream(m))
    \/ HttpBudget /\ NoRequestRunning /\ CastDeviceSelected("ipc")
    \/ ProgressTick
    \/ \E i \in OpIds : SessionSteps(i)
    \/ \E i \in OpIds : CastSteps(i)
    \/ HttpBudget /\ (\E s \in SrvIds, range \in RangeHeaders : HttpRequest(s, range))

SpecHttp == Init /\ [][NextHttp]_vars

\* the same, with one HTTP request, from any address, in place of the last
\* IPC request
NextFilter ==
    \/ HttpBudget /\ NoRequestRunning /\ (\E m \in Magnets : StartStream(m))
    \/ HttpBudget /\ NoRequestRunning /\ CastDeviceSelected("ipc")
    \/ ProgressTick
    \/ \E i \in OpIds : SessionSteps(i)
    \/ \E i \in OpIds : CastSteps(i)
    \/ Len(ops) < MaxOps /\ responses = {}
          /\ (\E s \in SrvIds, clientIP \in RemoteAddrs, serverIP \in LocalIPs :
                 RemoteRequest(s, clientIP, serverIP))

SpecFilter == Init /\ [][NextFilter]_vars

\* download, then play: start-download requests and their steps, and
\* start-stream with the magnet of a title once it is in the index, on a
\* platform of either kind
NextRoundTrip ==
    \/ \E h \in Hashes, subtitleUrl \in BOOLEAN, dupCb \in BOOLEAN : StartDownload(h, subtitleUrl, dupCb)
    \/ \E k \in DlIds : DownloadSteps(k)
    \/ NoRequestRunning /\ (\E h \in stored : StartStream(MagnetOf(h)))
    \/ ProgressTick
    \/ \E i \in OpIds : SessionSteps(i)

SpecRoundTrip == InitOn({{}}, BOOLEAN) /\ [][NextRoundTrip]_vars

\* non-overlapping startStream calls whose torrents download their pieces
NextProgress ==
    \/ \E m \in Magnets : StartStreamSeq(m)
    \/ ProgressTick
    \/ \E i \in OpIds : SeqSteps(i)
    \/ \E i \in OpIds : PieceDownloaded(i)

SpecProgress == Init /\ [][NextProgress]_vars

\* start-stream, stop-stream, cast-device-selected and stop-casting in any
\* order and overlap
NextCast ==
    \/ \E m \in Magnets : StartStream(m)
    \/ FullCleanup
    \/ CastDeviceSelected("ipc")
    \/ StopCasting
    \/ ProgressTick
    \/ \E i \in OpIds : SessionSteps(i)
    \/ \E i \in OpIds : CastSteps(i)
    \/ \E i \in OpIds : StopSteps(i)

SpecCast == Init /\ [][NextCast]_vars

\* the event loop also runs the timers and continuations of the cast flow
CastLoopStep ==
    \E i \in OpIds :
        \/ rebindServerForCast(i) \/ GateResume(i) \/ GateTimeout(i)
        \/ rebindForCast(i) \/ createCastServer(i) \/ CastAfterRebind(i)
CastFairness == WF_vars(EventLoopStep) /\ WF_vars(CastLoopStep)
LiveSession == Init /\ [][NextSession]_vars /\ CastFairness

TypeOK ==
    /\ activeServer \in 0 .. MaxOps
    /\ Len(servers) <= MaxOps
    /\ Len(ops) <= MaxOps
    /\ \A i \in OpIds : ops[i].pc \in {"cleanup", "fcResume", "fcDone", "acquire", "adding", "retry",
                                         "delay", "joined", "mute", "gate", "rebind", "castTimer",
                                         "result", "playing", "hung", "unbound", "done", "retired",
                                         "stopping"}

\* ================================================================ claims
BoundServers == {s \in SrvIds : Listening(s)}
AliveClients == {j \in OpIds : ops[j].cl = "alive"}

\* C1: with startStream calls that do not overlap, no two listeners are bound
\* and no two streaming clients are alive in any state, and when a session's
\* ready callback has fired every bound listener is that session's and no
\* client of an earlier session is alive.
C1_OneSessionAtATime ==
    /\ Cardinality(BoundServers) <= 1
    /\ Cardinality(AliveClients) <= 1
    /\ \A i \in OpIds :
         (ops[i].pc = "done" /\ ops[i].ready > 0) =>
            /\ \A s \in BoundServers : servers[s].owner = i
            /\ \A j \in AliveClients : j = i
\* a second session is ready after a swarm session that had a client and a listener
C1_Witness ==
    \E i, j \in OpIds :
        /\ j < i /\ ops[j].cl = "destroyed"
        /\ ops[i].pc = "done" /\ ops[i].ready = 1
        /\ \E s \in SrvIds : servers[s] = ClosedServer
        /\ activeServer \in BoundServers
\* listeners of the streaming session (torrent or local-file servers)
SessionListeners == {s \in BoundServers : servers[s].kind \in {"torrent", "local"}}
StartsFinished == \A j \in OpIds : ops[j].kind = "start" => Finished(ops, j)

\* C2: overlapping startStream calls are serialized: no call begins acquiring its
\* torrent while another startStream call is still tearing the previous session
\* down; once all calls have finished at most one swarm client is alive and it
\* is the tracked one, at most one session listener is bound, and the fields of
\* the surviving session have not been reset by the other call's cleanup.
C2_StartStreamSerialized ==
    /\ \A j \in OpIds : ~ops[j].acqDuring
    /\ StartsFinished =>
          /\ Cardinality(AliveClients) <= 1
          /\ AliveClients \subseteq {client}
          /\ Cardinality(SessionListeners) <= 1
          /\ (activeServer \in SessionListeners /\ servers[activeServer].kind = "torrent") =>
                /\ activeTorrent # 0 /\ activeFileIndex # -1 /\ activeFileName # "null"
                /\ streamReadyPromise # 0 /\ ~isClean

\* C3: when a fullCleanup call that was issued with no other operation in
\* flight, and has had none since, has finished, no HTTP listener opened by the
\* streaming subsystem is bound and no swarm client is alive.
C3_NoListenerAfterFullCleanup ==
    \A i \in OpIds :
        (/\ ops[i].kind = "full" /\ ops[i].pc = "done" /\ ops[i].quiet
         /\ i = Len(ops)) =>
            /\ BoundServers = {}
            /\ AliveClients = {}

\* C4: a fullCleanup call issued while an earlier fullCleanup is in progress
\* does not finish before the earlier one has (so not before the cache
\* deletion), and runs neither forceCleanup nor cleanCache itself.
C4_SecondCallJoins ==
    \A b \in OpIds :
        (ops[b].kind = "full" /\ ops[b].pc = "done" /\ ops[b].during # 0) =>
            /\ Finished(ops, ops[b].during)
            /\ ops[b].nFc = 0 /\ ops[b].nCc = 0
\* a forceCleanup that has not resumed, or a fullCleanup call that has not
\* finished
CleanupPending(i) ==
    \/ ops[i].pc \in {"cleanup", "fcResume"}
    \/ ops[i].kind = "full" /\ ~Finished(ops, i)

\* C5: every forceCleanup that has begun its teardown resumes, and every
\* fullCleanup call finishes, even when the close and destroy callbacks never
\* fire: from some point on no cleanup is pending.  While a teardown waits,
\* and no startStream call runs beside it, the tracked listener and client
\* references are already cleared.
C5_CleanupTerminates ==
    /\ <>[](\A i \in OpIds : ~CleanupPending(i))
    /\ [](\A i \in OpIds :
            (ops[i].pc = "cleanup" /\ ~ops[i].ssDuring) => (activeServer = 0 /\ client = 0))

C5_Witness ==
    \E i \in OpIds :
        /\ ops[i].kind = "full" /\ ops[i].pc = "done"
        /\ ops[i].nFc = 1 /\ ops[i].nCc = 1
        /\ \E s \in SrvIds : servers[s] = ClosedServer
        /\ \E j \in OpIds : ops[j].cl = "destroyed"

\* C6: when forceCleanup completes and no startStream call ran beside it, every
\* session field holds its initial value: no listener, client or torrent is
\* tracked, file index, file name, port and local path are null, the cast flag
\* is false, no progress timer, no ready promise, no cleanup promise, and
\* isClean is true.
C6_ForceCleanupResetsAll ==
    \A i \in OpIds :
        (ops[i].pc = "fcDone" /\ ~ops[i].ssDuring) =>
            /\ activeServer = 0 /\ client = 0 /\ activeTorrent = 0
            /\ activeFileIndex = -1 /\ activeFileName = "null"
            /\ activePort = 0 /\ activeLocalFilePath = "null" /\ isCastMode = FALSE
            /\ progressInterval = 0 /\ streamReadyPromise = 0 /\ cleanupPromise = 0
            /\ isClean = TRUE

C6_Witness ==
    \E i \in OpIds :
        /\ ops[i].pc = "fcDone" /\ ~ops[i].ssDuring
        /\ \E s \in SrvIds : servers[s] = ClosedServer
        /\ \E j \in OpIds : ops[j].cl = "destroyed"

\* C7: the result of rebindServerForCast(localIp) is null or a URL whose host
\* is the supplied localIp, and never a URL containing 127.0.0.1.
C7_RebindUrlNeverLoopback ==
    \A i \in OpIds :
        (ops[i].kind = "cast" /\ ops[i].pc = "result" /\ ops[i].res # NullUrl) =>
            /\ ops[i].res.host = ops[i].ip
            /\ ~Includes127(ops[i].res)

\* C8: a cast listener opened by a rebind that was called while an earlier
\* cast listener of the same session was bound finds that listener closed, and
\* is bound to CAST_PORT unless a foreign process holds that port.
C8_RebindClosesPreviousCast ==
    \A s \in BoundServers :
        (servers[s].kind = "cast" /\ servers[s].prev # 0) =>
            /\ ~Listening(servers[s].prev)
            /\ (servers[s].port = CAST_PORT \/ CAST_PORT \in foreign)

\* C9: when rebindForCast finds neither an active torrent nor a local file, the
\* call resolves null, closes no listener, binds none, and leaves the media,
\* torrent and session fields as they were.
C9_RebindNullWithoutSource ==
    [][\A i \in OpIds :
          (/\ ops[i].pc = "rebind" /\ ops'[i].pc # "rebind"
           /\ ~hasActiveTorrent /\ activeLocalFilePath = "null") =>
              /\ ops'[i].pc = "result" /\ ops'[i].res = NullUrl
              /\ servers' = servers
              /\ UNCHANGED <<mediaVars, torrentVars, indexVars>>]_vars

C9_Witness ==
    \E i \in OpIds :
        /\ ops[i].kind = "cast" /\ ops[i].pc = "result" /\ ops[i].res = NullUrl
        /\ ops[i].g # 0 /\ ops[ops[i].g].gate = "true"
        /\ ~hasActiveTorrent /\ activeLocalFilePath = "null"
        /\ activeServer # 0

\* C10: a cast flow never calls playOnDevice with a null or loopback URL, and
\* when the handler has finished without a cast-connected reply the cast flag
\* is false and exactly one cast-error reply was sent.
C10_FailedCastNeverPlays ==
    \A i \in OpIds :
        ops[i].kind = "cast" =>
            /\ ops[i].played # NullUrl
            /\ (ops[i].played # NotCalled => ~Includes127(ops[i].played))
            /\ (ops[i].pc = "done" /\ ops[i].nConn = 0) => (ops[i].nErr = 1 /\ ~isCastMode)
\* C11: when a cast attempt made with no other operation in flight has failed
\* (rebindServerForCast resolved null, or the handler finished without a
\* cast-connected reply), the listener that served the session before the
\* attempt is still bound and still the tracked one.
C11_FailedCastKeepsPlayback ==
    \A i \in OpIds :
        (/\ ops[i].kind = "cast" /\ ops[i].quiet /\ i = Len(ops) /\ ops[i].srv0 # 0
         /\ \/ ops[i].pc = "result" /\ ops[i].res = NullUrl
            \/ ops[i].pc = "done" /\ ops[i].nConn = 0) =>
            /\ Listening(ops[i].srv0)
            /\ activeServer = ops[i].srv0
\* C12: every listener bound to the wildcard address runs the LAN-only filter
\* (validateLocalIP, 403 on failure) before its file-serving handler.
C12_WildcardListenersFiltered ==
    \A s \in BoundServers : servers[s].host = Wildcard => servers[s].sec
\* C13: when serveTorrent has made six bind attempts (ports 62182..62186 were
\* all in use), the sixth is the ephemeral one (listen(0)), and no fixed port
\* above PREFERRED_PORT + 4 is ever tried.
C13_SixthAttemptEphemeral ==
    \A i \in OpIds :
        /\ Len(ops[i].tried) >= MaxRetryPort + 1 => ops[i].tried[MaxRetryPort + 1] = 0
        /\ \A k \in 1 .. Len(ops[i].tried) : ops[i].tried[k] < PREFERRED_PORT + MaxRetryPort

FirstMaxIndex(files) ==
    (CHOOSE k \in 1 .. Len(files) :
        /\ \A j \in 1 .. Len(files) : files[j].length <= files[k].length
        /\ \A j \in 1 .. (k - 1) : files[j].length < files[k].length) - 1

\* C15: when a swarm session has delivered its URL, the primary file recorded
\* (activeFileIndex, activeFileName, and the index in the URL) is the file of
\* maximum length, the lowest index among equals, whatever sessions came before.
C15_PrimaryFileFirstMax ==
    \A i \in OpIds :
        (/\ ops[i].kind = "start" /\ ops[i].pc = "done" /\ ops[i].ready = 1
         /\ Files(ops[i].magnet) # << >> /\ ~LocalFileExists(ops[i].magnet)) =>
            LET files == Files(ops[i].magnet)
            IN  /\ activeFileIndex = FirstMaxIndex(files)
                /\ activeFileName = files[FirstMaxIndex(files) + 1].name
                /\ ops[i].res.path[1] = FirstMaxIndex(files)
C17_FailedAcquisitionIdle ==
    \A i \in OpIds :
        (/\ ops[i].kind = "start" /\ ops[i].pc = "done" /\ ops[i].gate = "false"
         /\ \A j \in OpIds \ {i} : Finished(ops, j)) =>
            /\ isClean
            /\ client = 0 /\ AliveClients = {}
            /\ BoundServers = {}
\* C18: while the listener of a session is bound and no teardown has begun,
\* getStreamUrl() returns the URL last delivered for it: the URL given to the
\* ready callback of startStream while that call's listener is the tracked
\* one, and the URL resolved by rebindServerForCast once a cast attempt, made
\* with nothing else in flight, has bound its listener.
C18_StreamUrlIsCurrent ==
    \A i \in OpIds :
        /\ (/\ ops[i].kind = "start" /\ ops[i].pc = "done" /\ ops[i].ready = 1
            /\ activeServer # 0 /\ Listening(activeServer)
            /\ servers[activeServer].owner = i) =>
               getStreamUrl(ops[i].res.host) = ops[i].res
        /\ (/\ ops[i].kind = "cast" /\ ops[i].pc = "playing"
            /\ ops[i].quiet /\ i = Len(ops)
            /\ \E s \in BoundServers : servers[s].owner = i) =>
               getStreamUrl(ops[i].ip) = ops[i].res

\* C19: startDownload is idempotent per identifier.  While a download of an
\* identifier is in progress (the download client holds its torrent, whether
\* or not the torrent-added callback has fired), no startDownload call for the
\* same identifier invokes downloadClient.add, and at most one call holds a
\* running task for it.
C19_StartDownloadIdempotent ==
    /\ \A k \in DlIds : dls[k].adds = 1 => ~dls[k].dup
    /\ \A h \in Hashes :
           Cardinality({k \in DlIds : dls[k].hash = h /\ dls[k].pc \in {"adding", "active"}}) <= 1

\* C20: streaming and downloading are isolated.  The download client is never
\* the object of a streaming client (the current one or one created by an
\* earlier startStream), and no step changes both sides: a step of startStream,
\* rebindServerForCast, forceCleanup or fullCleanup leaves downloadClient,
\* activeDownloads and the download torrents as they are, and a step of
\* startDownload, cancelDownload or finalizeDownload leaves the streaming
\* client, torrent and listeners as they are.
C20_StreamingDownloadsIsolated ==
    /\ [](downloadClient # 0 =>
             /\ downloadClient # client
             /\ \A i \in OpIds : ops[i].cl # "none" => downloadClient # i)
    /\ [][streamVars' # streamVars => UNCHANGED dlVars]_vars

\* a streaming client was destroyed by a teardown and its successor is serving,
\* while a download made with the download client was finalized
C20_Witness ==
    /\ \E i \in OpIds : ops[i].cl = "destroyed"
    /\ client # 0 /\ ops[client].cl = "alive"
    /\ activeServer # 0 /\ Listening(activeServer)
    /\ downloadClient # 0
    /\ IsolationHash \in stored
    /\ \E k \in DlIds : dls[k].pc = "done" /\ dls[k].adds = 1

\* C21: finalizeDownload writes the identifier into the downloads index and
\* calls onComplete only in a run of its timer that leaves video.mp4 in place;
\* a run that finds neither file, or whose rename throws, leaves the index as
\* it is, calls nothing and abandons the task; and finalizeDownload runs at
\* most once for a startDownload call.
C21_FinalizeOnlyWithVideo ==
    /\ [](\A k \in DlIds : dls[k].fin <= 1 /\ dls[k].complete <= dls[k].fin)
    /\ [][/\ (stored' # stored \/ \E c \in DlIds : dls'[c].complete # dls[c].complete) =>
                \E k \in DlIds :
                    /\ dls[k].pc = "timer" /\ dls'[k].pc = "done"
                    /\ dirs'[dls[k].hash] = "video"
                    /\ stored' = stored \cup {dls[k].hash}
                    /\ dls'[k].complete = 1
           /\ \A j \in DlIds :
                (dls[j].pc = "timer" /\ dls'[j].pc # "timer" /\ dirs'[dls[j].hash] # "video") =>
                    /\ dls'[j].pc = "abandoned" /\ dls'[j].complete = 0
                    /\ stored' = stored]_vars

\* one download was finalized into the index, another was abandoned with its
\* files missing
C21_Witness ==
    \E k, j \in DlIds :
        /\ dls[k].pc = "done" /\ dls[k].complete = 1 /\ dls[k].hash \in stored
        /\ dirs[dls[k].hash] = "video"
        /\ dls[j].pc = "abandoned" /\ dls[j].hash \notin stored

C23_OneOutcomePerStart ==
    \A i \in OpIds :
        ops[i].kind = "start" =>
            /\ ops[i].pc = "done" => ops[i].ready + FailureSignals(i) = 1
            /\ ~(ops[i].pc = "adding" /\ ops[i].cl = "alive" /\ ops[i].tor = "destroyed")

\* C24: setCastMode changes the cast-mode flag only.  A step that changes the
\* flag and leaves the tracked listener bound as it was leaves every listener
\* as it was, and getStreamUrl reports the same URL for that listener after
\* the step as before it.
C24_SetCastModeKeepsUrl ==
    [][(/\ isCastMode' # isCastMode
        /\ activeServer # 0 /\ Listening(activeServer)
        /\ activeServer' = activeServer /\ servers'[activeServer] = servers[activeServer]) =>
           /\ servers' = servers
           /\ \A lip \in getLocalIP : getStreamUrl(lip)' = getStreamUrl(lip)]_vars

\* C25: the cast rebind follows the bounded-retry policy of the streaming
\* listener.  A cast listener is bound to a port other than CAST_PORT ..
\* CAST_PORT + 5 only when each of those ports was in use.
C25_CastPortRetries ==
    [][\A s \in 1 .. Len(servers') :
          (/\ s > Len(servers)
           /\ servers'[s].kind = "cast" /\ servers'[s].st = "listening"
           /\ servers'[s].port \notin CAST_PORT .. CAST_PORT + MaxRetryPort) =>
              \A p \in CAST_PORT .. CAST_PORT + MaxRetryPort : PortInUse(servers, p)]_vars

\* C26: every rebindServerForCast call ends.  From some moment on no cast
\* flow is waiting for the ready gate, for the rebind or for the creation of
\* the cast listener, and none is left with a promise that cannot resolve.
C26_RebindResolves ==
    <>[](\A i \in OpIds :
            ops[i].kind = "cast" => ops[i].pc \notin {"mute", "gate", "rebind", "castTimer", "hung"})


\* C27: the regular streaming listener and the cast listener of one session
\* are never bound at the same time: while a cast listener opened in the
\* current session is bound, the tracked listener of the session is not.
C27_RegularAndCastExclusive ==
    (activeServer # 0 /\ Listening(activeServer)) => BoundCasts = {}


\* C28: a progress reply is never sent to the sink of a session whose torrent
\* is destroyed, and the tick of a session only reports that session's torrent.
C28_NoReportAfterDestroy ==
    report # NoStats =>
        /\ ops[report.sink].tor # "destroyed"
        /\ report.tor = report.sink


\* C29: the progress tick is cancelled once progress reaches 100%: after a
\* reply with progress = 1 the same tick sends no further reply.
C29_NoReportAfterComplete ==
    report # NoStats => report.full < MaxFull


\* C30: when the stop-casting handler finishes, no device is active, no
\* listener is bound, no swarm client is tracked or alive, the cast-mode flag
\* is false, and one cast-stopped reply has been sent, also when stopping the
\* device threw.
C30_StopCastingTearsDown ==
    [][\A i \in OpIds :
          (ops[i].variant = "stopcast" /\ ops[i].pc = "done" /\ ops'[i].pc = "retired") =>
              /\ activeDevice' = NoDevice
              /\ BoundServers' = {}
              /\ client' = 0 /\ AliveClients' = {}
              /\ ~isCastMode'
              /\ ops'[i].nConn = 1]_vars


\* the startDownload calls made for a hash
CallsFor(h) == {k \in DlIds : dls[k].hash = h}

\* C31: after cancelDownload(id), with no startDownload(id) since, no download
\* task of id is active: while the cancel's removal timer is pending for an id
\* that was started once, activeDownloads has no entry for it.
C31_CancelIsFinal ==
    \A h \in Hashes :
        (Cardinality(CallsFor(h)) = 1 /\ rmTimers[h] # 0) => activeDownloads[h] = 0

\* C38: the index holds no entry whose directory is gone, and a download
\* that was started once reports no completion while the removal timer of a
\* cancel for it is pending.
C38_CancelVersusFinalize ==
    [][/\ \A h \in stored' : dirs'[h] # "none"
       /\ \A k \in DlIds :
              (dls'[k].complete > dls[k].complete /\ Cardinality(CallsFor(dls[k].hash)) = 1) =>
                  rmTimers[dls[k].hash] = 0]_vars

\* the swarm session of startStream call i is serving: its ready callback has
\* fired, its listener is the tracked one and is bound, its torrent is alive
SwarmServing(i) ==
    /\ activeServer # 0 /\ Listening(activeServer)
    /\ servers[activeServer].kind = "torrent" /\ servers[activeServer].owner = i
    /\ ops[i].tor = "ready" /\ ops[i].cl = "alive"

\* C32: while a swarm session is serving, activeFileIndex and activeFileName
\* are non-null and do not change, whatever other calls interleave.
C32_FileSelectionStable ==
    [][\A i \in OpIds :
          (SwarmServing(i) /\ SwarmServing(i)') =>
              /\ activeFileIndex' = activeFileIndex /\ activeFileName' = activeFileName
              /\ activeFileIndex' # -1 /\ activeFileName' # "null"]_vars


\* the pairs (remote address, address of this machine) that the LAN-only rule
\* admits: the loopback addresses always, a private address when this machine
\* is on the same /24
LanAdmits ==
    ({"127.0.0.1", "::1", "::ffff:127.0.0.1"} \X LocalIPs)
        \cup {<<"192.168.1.9", "192.168.1.5">>, <<"::ffff:192.168.1.9", "192.168.1.5">>,
              <<"10.0.0.7", "10.0.0.3">>, <<"172.16.0.1", "172.16.0.9">>,
              <<"169.254.1.1", "169.254.1.2">>}

\* C33: validateLocalIP accepts exactly the loopback addresses and the private
\* addresses on the /24 of getLocalIP(), with or without the ::ffff: prefix,
\* and a filtered listener answers 403 exactly to the other addresses.
C33_ValidateLocalIP ==
    /\ \A clientIP \in RemoteAddrs, serverIP \in LocalIPs :
           validateLocalIP(clientIP, serverIP) <=> <<clientIP, serverIP>> \in LanAdmits
    /\ \A r \in responses :
           r.filtered => (r.resp.status = 403 <=> <<r.remote, r.lip>> \notin LanAdmits)

\* a filtered listener served a mapped private address of its own /24
C33_Witness ==
    \E r \in responses :
        /\ r.filtered /\ r.remote = "::ffff:192.168.1.9" /\ r.lip = LanIp
        /\ r.resp.status = 200

\* C34: every response of the streaming listeners carries
\* Access-Control-Allow-Origin: *, the error responses included.
C34_EveryResponseHasCors ==
    \A r \in responses : r.resp.cors


\* C35: whenever isClean is true no listener of a session is bound or tracked
\* and no streaming client is alive, so the 'already clean' return of
\* fullCleanup is never taken while a session holds a listener or a client.
C35_CleanMeansIdle ==
    isClean => (activeServer = 0 /\ client = 0 /\ BoundServers = {})


\* C36: once a forceCleanup begun after a session armed a timer has resolved,
\* the callback of that timer (the port retry of serveTorrent, the delayed
\* cast-server creation of rebindForCast) binds no listener, sets no tracked
\* listener and delivers no URL.
C36_NoLateCallbacks ==
    [][\A i \in OpIds :
          (TimerPending(ops, i) /\ ops[i].td = -1 /\ ops'[i].pc # ops[i].pc) =>
              /\ BoundServers' \subseteq BoundServers
              /\ activeServer' \in {0, activeServer}
              /\ ops'[i].ready = ops[i].ready
              /\ ops'[i].res = NullUrl]_vars


\* C37: the cleanCache that ends the 500 ms delay of a fullCleanup deletes no
\* cache directory in use by a session acquired during that delay, and a
\* fullCleanup called during the delay starts no second teardown.
C37_DelayedCacheDeletion ==
    [][\A i \in OpIds :
          ops[i].pc = "delay" =>
              /\ ops'[i].pc = "done" =>
                     ~\E j \in OpIds : ops[j].kind = "start" /\ ops[j].inDelay = i /\ ops[j].cl = "alive"
              /\ (Len(ops') > Len(ops) /\ ops'[Len(ops')].kind = "full") =>
                     ops'[Len(ops')].pc \in {"done", "joined"}]_vars


\* C39: after a download of H was finalized, startStream with the magnet of H
\* takes the offline-first path (it creates no swarm client), for every
\* spelling of H that startDownload accepts.
C39_DownloadThenPlay ==
    \A i \in OpIds :
        (/\ ops[i].kind = "start" /\ ops[i].magnet \in HashMagnets
         /\ ops[i].pc \notin {"acquire", "cleanup", "fcResume", "fcDone"}) =>
            ops[i].cl = "none"


\* C40: when the only cast attempt made so far has failed inside playOnDevice
\* (provider.play rejected), no device is recorded as active: isCasting() is
\* false.
C40_FailedCastIsNotCasting ==
    \A i \in OpIds :
        (/\ ops[i].kind = "cast" /\ ops[i].pc = "done"
         /\ ops[i].played # NotCalled /\ ops[i].nErr > 0 /\ ops[i].nConn = 0
         /\ \A j \in OpIds \ {i} :
                \/ ops[j].kind \in {"start", "full"}
                \/ ops[j].kind = "retired" /\ ops[j].gate # "none") =>
            activeDevice = NoDevice

====
